---------------------------- MODULE Spec2Model ----------------------------
(***************************************************************************)
(* A state-machine model of carbonyl's terminal Renderer                   *)
(* (src/src/output/renderer.rs, cell.rs, fidelitty.rs): the double         *)
(* buffered cell grid, the text compositor, the CPU and accelerator        *)
(* background paths and the diff-and-paint driver.                         *)
(***************************************************************************)
EXTENDS Integers, Sequences, FiniteSets, TLC

VARIABLES
    size,      \* Renderer.size: [width, height] in cells
    cells,     \* Renderer.cells: sequence of [prev, cur] pairs (index i+1 = Rust index i)
    ctx,       \* Renderer.ftty is Some (context handle non-null)
    pipe,      \* ftty.pipeline is non-null
    pipeDims,  \* <<w, h>> of the pipeline's last successful create/resize
    panicked,  \* the thread has panicked (index out of range, arithmetic overflow)
    steps,     \* number of calls made so far
    ev         \* observation of the last call: what it was given and what it did

vars == <<size, cells, ctx, pipe, pipeDims, panicked, steps, ev>>

---------------------------------------------------------------------------
(* Bounds of the model *)

MaxW == 2
MaxH == 1
MaxSteps == 3
MaxText == 1
MaxNav == 1
\* rows of the viewports of SpecNav: enough for an origin below row 0
MaxNavH == MaxH + 1

(* Program constants *)

Space == 32
PxPerCellX == 2
PxPerCellY == 4
Bpp == 4
U16 == 65536
\* stands for every value above all lengths the model reaches: u32::MAX after
\* `0u32 - 1` wraps, and a negative i32 after `as usize`
Huge == 2147483647
BlockGlyph == 9604

Black == 0
Colors == {0, 1}

Min(a, b) == IF a < b THEN a ELSE b
Max(a, b) == IF a > b THEN a ELSE b

\* Rust integer division truncates toward zero
TruncDiv(a, b) == IF a >= 0 THEN a \div b ELSE -((-a) \div b)

\* `v as usize` of an i32: a negative value becomes 2^64 + v
AsUsize(v) == IF v >= 0 THEN v ELSE Huge

\* `size.width - 1` on u32, wrapping (release build)
WrappingDec(v) == IF v = 0 THEN Huge ELSE v - 1

\* `v as u16`
AsU16(v) == v % U16

---------------------------------------------------------------------------
(* Cells and graphemes *)

\* Option<Rc<Grapheme>>: <<>> is None, <<g>> is Some(g)
None == <<>>
Some(g) == <<g>>

Grapheme(ch, index, width, color) ==
    [char |-> ch, index |-> index, width |-> width, color |-> color]

NewCell(x, y) ==
    [cursor |-> <<x, y>>,
     grapheme |-> None,
     quadrant |-> <<Black, Black, Black, Black>>,
     background |-> Black,
     foreground |-> Black,
     codepoint |-> Space]

\* CellEq with the code point left out of the comparison
CellEqNoCodepoint(a, b) ==
    /\ a.cursor = b.cursor
    /\ a.grapheme = b.grapheme
    /\ a.quadrant = b.quadrant
    /\ a.background = b.background
    /\ a.foreground = b.foreground

\* #[derive(PartialEq)] on Cell: every field, graphemes by content
CellEq(a, b) ==
    /\ a.cursor = b.cursor
    /\ a.grapheme = b.grapheme
    /\ a.quadrant = b.quadrant
    /\ a.background = b.background
    /\ a.foreground = b.foreground
    /\ a.codepoint = b.codepoint

\* Grapheme clusters of the model and their display width (unicode_width)
Chars == {"a", "W"}
Width(ch) == IF ch = "W" THEN 2 ELSE 1

RECURSIVE TextWidth(_)
TextWidth(s) == IF s = <<>> THEN 0 ELSE Width(Head(s)) + TextWidth(Tail(s))

Texts == UNION {[1..n -> Chars] : n \in 0..MaxText}

---------------------------------------------------------------------------
(* Observation record: every call overwrites it *)

Ev0 ==
    [op |-> "new",
     \* draw_text: the string, the color, the mode and the slice start of place mode
     text |-> <<>>, color |-> 0, mode |-> "none", start |-> 0,
     \* draw_text, place mode: the column and the row computed from the origin
     cell |-> <<0, 0>>,
     \* draw_text: the size in pixels
     sz |-> <<0, 0>>,
     \* draw, fill_rect: the rectangle <<x, y, width, height>>
     rect |-> <<0, 0, 0, 0>>,
     \* draw_background: pixels.len(), the clamped region, the path taken
     pixLen |-> 0, region |-> <<0, 0, 0, 0>>, path |-> "none",
     \* one past the highest byte offset read from pixels / written to the input surface
     readEnd |-> 0, writeEnd |-> 0,
     \* accelerator functions called, in order
     calls |-> <<>>,
     \* render: painter calls made and grid positions compared and forwarded
     begun |-> FALSE, compared |-> 0, painted |-> <<>>, ended |-> FALSE,
     \* render: the elements Navigation::render returned, the positions whose
     \* current cell differed from the previous one when the diff loop started,
     \* and the painter call that returned an error ("none": no call did);
     \* draw_background: the accelerator call that failed
     nav |-> <<>>, changed |-> {}, failed |-> "none",
     \* the call repeats the previous call: same operation, same inputs (for
     \* draw_text: an origin with the same buffer index), and the previous call
     \* returned normally
     again |-> FALSE,
     \* set_size: some cell of the grid differed from a fresh cell before the call
     dirty |-> FALSE,
     \* the call returned normally (for render: Ok(()))
     ok |-> TRUE,
     \* grid indices whose current cell was accessed / given a new Rc<Grapheme>
     touched |-> {}, stored |-> {}]

---------------------------------------------------------------------------
(* Renderer::new *)

Init ==
    /\ size = [width |-> 0, height |-> 0]
    /\ cells = <<>>
    /\ ctx \in BOOLEAN
    /\ pipe = FALSE
    /\ pipeDims = <<0, 0>>
    /\ panicked = FALSE
    /\ steps = 0
    /\ ev = [Ev0 EXCEPT !.calls = <<"context_create">>]

\* a call can be made on a renderer that has not panicked and was not dropped
Ready == ~panicked /\ ev.op # "drop" /\ steps < MaxSteps

---------------------------------------------------------------------------
(* Navigation (external collaborator): render(size) returns elements       *)

Element(x, y, text, bg, fg) ==
    [x |-> x, y |-> y, text |-> text, background |-> bg, foreground |-> fg]

\* elements whose one-row rectangle (x, y, text width, 1) lies inside the grid
NavElements(w, h) ==
    {Element(x, y, t, bg, fg) :
        x \in 0..(w - 1), y \in 0..h, t \in Texts \ {<<>>}, bg \in Colors, fg \in {1}}

NavFits(e, w) == e.x + TextWidth(e.text) <= w

\* what one call of Navigation::render may return
NavStates(w, h) ==
    LET fit == {e \in NavElements(w, h) : NavFits(e, w)}
    IN UNION {[1..n -> fit] : n \in 0..MaxNav}

---------------------------------------------------------------------------
(* Renderer::set_size *)

\* the resize_with closure: n cells, cursor advanced with the x/bound test
RECURSIVE GenCells(_, _, _, _, _)
GenCells(n, x, y, bound, acc) ==
    IF n = 0 THEN acc
    ELSE LET pair == [prev |-> NewCell(x, y), cur |-> NewCell(x, y)]
         IN IF x < bound
            THEN GenCells(n - 1, x + 1, y, bound, Append(acc, pair))
            ELSE GenCells(n - 1, 0, y + 1, bound, Append(acc, pair))

\* Cleared without the clear() call: the old cells stay in the vector
ClearedKeeps(cs) == cs

\* self.cells.clear()
Cleared(cs) == <<>>

\* self.cells.clear(); self.cells.resize_with(cells, closure): resize_with keeps
\* what the vector holds and appends closure values up to the new length
ResizedCells(cs, w, h) ==
    LET kept == Cleared(cs)
        n == w + w * h
    IN IF n <= Len(kept) THEN SubSeq(kept, 1, n)
       ELSE GenCells(n - Len(kept), 0, 0, WrappingDec(w), kept)

IsFresh(cell) ==
    /\ cell.grapheme = None
    /\ cell.quadrant = <<Black, Black, Black, Black>>
    /\ cell.background = Black /\ cell.foreground = Black /\ cell.codepoint = Space

Dirty(cs) == \E i \in 1..Len(cs) : ~IsFresh(cs[i].cur) \/ ~IsFresh(cs[i].prev)

\* PipelineAfter without the test for a context
PipelineAfterNoContextTest(w, h, accelOk) ==
    IF ~pipe
    THEN [pipe |-> accelOk,
          dims |-> IF accelOk THEN <<AsU16(w), AsU16(h)>> ELSE pipeDims,
          calls |-> <<"create_pipeline">>]
    ELSE [pipe |-> pipe,
          dims |-> IF accelOk THEN <<AsU16(w), AsU16(h)>> ELSE pipeDims,
          calls |-> <<"resize_pipeline">>]
\* "Create or resize fidelitty pipeline": the handle and the dimensions the
\* pipeline was last successfully created or resized for
PipelineAfter(w, h, accelOk) ==
    IF ~ctx
    THEN [pipe |-> pipe, dims |-> pipeDims, calls |-> <<>>]
    ELSE IF ~pipe
    THEN [pipe |-> accelOk,
          dims |-> IF accelOk THEN <<AsU16(w), AsU16(h)>> ELSE pipeDims,
          calls |-> <<"create_pipeline">>]
    ELSE [pipe |-> pipe,
          dims |-> IF accelOk THEN <<AsU16(w), AsU16(h)>> ELSE pipeDims,
          calls |-> <<"resize_pipeline">>]

SetSize(w, h, accelOk) ==
    /\ Ready
    /\ w >= 1
    /\ size' = [width |-> w, height |-> h]
    /\ cells' = ResizedCells(cells, w, h)
    /\ LET p == PipelineAfter(w, h, accelOk)
       IN /\ pipe' = p.pipe
          /\ pipeDims' = p.dims
          /\ ev' = [Ev0 EXCEPT !.op = "set_size", !.calls = p.calls,
                               !.ok = (p.calls = <<>> \/ accelOk),
                               !.dirty = Dirty(cells)]
    /\ steps' = steps + 1
    /\ UNCHANGED <<ctx, panicked>>

\* size.width = 0: `size.width - 1` overflows u32. A debug build panics there,
\* after self.size was assigned; a release build wraps and builds an empty grid.
SetSizeZeroWidth(h, accelOk, debugBuild) ==
    /\ Ready
    /\ size' = [width |-> 0, height |-> h]
    /\ steps' = steps + 1
    /\ IF debugBuild
       THEN /\ panicked' = TRUE
            /\ ev' = [Ev0 EXCEPT !.op = "set_size", !.ok = FALSE]
            /\ UNCHANGED <<cells, ctx, pipe, pipeDims>>
       ELSE /\ cells' = ResizedCells(cells, 0, h)
            /\ LET p == PipelineAfter(0, h, accelOk)
               IN /\ pipe' = p.pipe
                  /\ pipeDims' = p.dims
                  /\ ev' = [Ev0 EXCEPT !.op = "set_size", !.calls = p.calls,
                                       !.ok = (p.calls = <<>> \/ accelOk),
                                       !.dirty = Dirty(cells)]
            /\ UNCHANGED <<ctx, panicked>>

---------------------------------------------------------------------------
(* Renderer::draw, fill_rect, clear_text *)

\* the closure fill_rect hands to draw
FillCell(cell, color) ==
    [cell EXCEPT !.grapheme = None,
                 !.quadrant = <<color, color, color, color>>,
                 !.background = color,
                 !.foreground = color,
                 !.codepoint = Space]

\* a closure a caller of the public draw may pass: step the foreground through
\* the colors, so that one application differs from two
TintCell(cell, color) ==
    [cell EXCEPT !.foreground = (cell.foreground + color) % Cardinality(Colors)]

Mutate(m, cell, color) ==
    IF m = "fill" THEN FillCell(cell, color) ELSE TintCell(cell, color)

\* MutateRange with the end of the slice included
MutateRangeInclusive(cs, left, right, m, color) ==
    [i \in 1..Len(cs) |->
        IF left <= i - 1 /\ i - 1 <= right
        THEN [cs[i] EXCEPT !.cur = Mutate(m, cs[i].cur, color)]
        ELSE cs[i]]
\* cells[left..right].iter_mut(): Rust indices left..right-1 of the current buffer
MutateRange(cs, left, right, m, color) ==
    [i \in 1..Len(cs) |->
        IF left <= i - 1 /\ i - 1 < right
        THEN [cs[i] EXCEPT !.cur = Mutate(m, cs[i].cur, color)]
        ELSE cs[i]]

\* draw: row by row; a row whose slice leaves the grid panics, rows before it stay mutated
RECURSIVE DrawRows(_, _, _, _, _, _, _, _)
DrawRows(cs, vw, y, bottom, ox, sw, m, color) ==
    IF y >= bottom THEN [cells |-> cs, panic |-> FALSE]
    ELSE LET left == y * vw + ox
             right == left + sw
         IN IF right > Len(cs)
            THEN [cells |-> cs, panic |-> TRUE]
            ELSE DrawRows(MutateRange(cs, left, right, m, color),
                          vw, y + 1, bottom, ox, sw, m, color)

\* rect = <<x, y, width, height>> in cells
Draw(cs, vw, rect, m, color) ==
    DrawRows(cs, vw, rect[2], rect[2] + rect[4], rect[1], rect[3], m, color)

Rects(w, h) == {<<x, y, rw, rh>> : x \in 0..(w - 1), y \in 0..(h + 1), rw \in 1..w, rh \in 1..2}

DrawOp(rect, m, color) ==
    /\ Ready
    /\ LET r == Draw(cells, size.width, rect, m, color)
       IN /\ cells' = r.cells
          /\ panicked' = r.panic
          /\ ev' = [Ev0 EXCEPT !.op = IF m = "fill" THEN "fill_rect" ELSE "draw",
                               !.color = color, !.rect = rect, !.ok = ~r.panic]
    /\ steps' = steps + 1
    /\ UNCHANGED <<size, ctx, pipe, pipeDims>>

ClearedText(cs) ==
    [i \in 1..Len(cs) |-> [cs[i] EXCEPT !.cur.grapheme = None]]

ClearText ==
    /\ Ready
    /\ cells' = ClearedText(cells)
    /\ ev' = [Ev0 EXCEPT !.op = "clear_text"]
    /\ steps' = steps + 1
    /\ UNCHANGED <<size, ctx, pipe, pipeDims, panicked>>

---------------------------------------------------------------------------
(* Renderer::draw_text *)

\* f32::round of n/d (d > 0): half away from zero
RoundDiv(n, d) ==
    IF n >= 0 THEN (2 * n + d) \div (2 * d) ELSE -((2 * (-n) + d) \div (2 * d))

\* clear mode: the covered cell rectangle <<left, right, top, bottom>>
ClearBounds(vw, vh, origin, sz) ==
    LET ox == RoundDiv(origin[1], PxPerCellX)
        oy == RoundDiv(origin[2] + PxPerCellY, PxPerCellY)
        sw == RoundDiv(sz[1], PxPerCellX)
        sh == RoundDiv(sz[2], PxPerCellY)
    IN <<Min(Max(ox, 0), vw), Min(Max(ox + sw, 0), vw),
         Min(Max(oy, 0), vh), Min(Max(oy + sh, 0), vh)>>

ClearRegion(cs, vw, b) ==
    [i \in 1..Len(cs) |->
        IF /\ b[3] <= (i - 1) \div vw /\ (i - 1) \div vw < b[4]
           /\ b[1] <= (i - 1) % vw /\ (i - 1) % vw < b[2]
        THEN [cs[i] EXCEPT !.cur.grapheme = None]
        ELSE cs[i]]

\* place mode: the column and the row the position is divided into, in i32
PlaceCell(origin) == <<TruncDiv(origin[1], 2), TruncDiv(origin[2] + 1, 4)>>

\* place mode: the buffer index computed from the position, in i32
PlaceIndex(vw, origin) == PlaceCell(origin)[1] + PlaceCell(origin)[2] * vw

\* SliceStart without len.min(..)
SliceStartUnclamped(len, index) == AsUsize(index)

\* self.cells[len.min(index as usize)..]
SliceStart(len, index) == Min(len, AsUsize(index))

\* graphemes(string) x (0..width): one Grapheme value per cell to cover
RECURSIVE Pieces(_, _)
Pieces(s, color) ==
    IF s = <<>> THEN <<>>
    ELSE LET ch == Head(s)
             w == Width(ch)
         IN [k \in 1..w |-> Grapheme(ch, k - 1, w, color)] \o Pieces(Tail(s), color)

\* MustStore without the comparison: every covered cell gets a new Rc
MustStoreAlways(old, next) == TRUE

\* the test guarding `cell.grapheme = Some(Rc::new(next))`
MustStore(old, next) ==
    IF old = None THEN TRUE
    ELSE old[1].color # next.color \/ old[1].char # next.char

\* the walk over iter.next(): pos is the Rust index of the next cell of the slice
RECURSIVE PlaceWalk(_, _, _, _, _)
PlaceWalk(cs, pos, pieces, touched, stored) ==
    IF pieces = <<>> \/ pos >= Len(cs)
    THEN [cells |-> cs, touched |-> touched, stored |-> stored]
    ELSE LET next == Head(pieces)
             st == MustStore(cs[pos + 1].cur.grapheme, next)
         IN PlaceWalk(IF st THEN [cs EXCEPT ![pos + 1].cur.grapheme = Some(next)] ELSE cs,
                      pos + 1, Tail(pieces),
                      touched \cup {pos},
                      IF st THEN stored \cup {pos} ELSE stored)

\* the loop over the clusters of the string, from slice start `start`
PlaceAt(cs, start, string, color) ==
    LET r == PlaceWalk(cs, start, Pieces(string, color), {}, {})
    IN [cells |-> r.cells, touched |-> r.touched, stored |-> r.stored, start |-> start]

\* place mode as a function of the grid and the inputs
PlaceText(cs, vw, string, origin, color) ==
    PlaceAt(cs, SliceStart(Len(cs), PlaceIndex(vw, origin)), string, color)

\* IsClearMode with either dimension enough
IsClearModeEither(sz) == sz[1] > 2 \/ sz[2] > 2

\* size.width > 2 && size.height > 2
IsClearMode(sz) == sz[1] > 2 /\ sz[2] > 2

DrawText(string, origin, sz, color) ==
    /\ Ready
    /\ IF IsClearMode(sz)
       THEN LET b == ClearBounds(size.width, size.height, origin, sz)
            IN /\ cells' = ClearRegion(cells, size.width, b)
               /\ ev' = [Ev0 EXCEPT !.op = "draw_text", !.mode = "clear", !.sz = sz,
                                    !.text = string, !.color = color, !.region = b]
       ELSE LET r == PlaceText(cells, size.width, string, origin, color)
            IN /\ cells' = r.cells
               /\ ev' = [Ev0 EXCEPT !.op = "draw_text", !.mode = "place",
                                    !.text = string, !.color = color, !.start = r.start,
                                    !.cell = PlaceCell(origin), !.sz = sz,
                                    !.touched = r.touched, !.stored = r.stored,
                                    !.again = (/\ ev.op = "draw_text" /\ ev.mode = "place"
                                               /\ ev.text = string /\ ev.start = r.start
                                               /\ ev.color = color)]
    /\ steps' = steps + 1
    /\ UNCHANGED <<size, ctx, pipe, pipeDims, panicked>>

\* pixel origins: before the grid, in it, one past each row, past the end
Origins(w, h) ==
    {<<x, y>> : x \in {-3, 0, 2, 2 * w}, y \in {-6, 0, 3, 4 * h + 3}}

TextSizes == {<<0, 0>>, <<4, 8>>}

\* more pixel sizes: larger than 2 in one dimension only, and barely larger in both
TextSizesEdge == TextSizes \cup {<<3, 2>>, <<2, 3>>, <<3, 3>>}

---------------------------------------------------------------------------
(* Renderer::draw_background *)

\* NeedLen without the four bytes per pixel
NeedLenNoBpp(vw, vh) == vw * vh * 8
\* the defensive size check: viewport.width * viewport.height * 8 * 4
NeedLen(vw, vh) == vw * vh * 8 * 4

\* the clamped cell region <<left, right, top, bottom>> of a pixel rect <<x, y, w, h>>:
\* origin.max(0) / (2, 4), floor for the low edge, ceil for the high edge
Region(vw, vh, rect) ==
    LET ox == Max(rect[1], 0)
        oy == Max(rect[2], 0)
        sw == Max(rect[3], 0)
        sh == Max(rect[4], 0)
        left == Min(ox \div PxPerCellX, vw)
        top == Min(oy \div PxPerCellY, vh)
        right == Max(Min((ox + sw + PxPerCellX - 1) \div PxPerCellX, vw), left)
        bottom == Max(Min((oy + sh + PxPerCellY - 1) \div PxPerCellY, vh), top)
    IN <<left, right, top, bottom>>

UseFidelitty == ctx /\ pipe

\* binarize_quandrant (crate::output, not part of these sources): a pure function
\* of the four quadrant colors to (glyph code point, background, foreground)
Binarize(q) ==
    IF q[1] = q[2] /\ q[2] = q[3] /\ q[3] = q[4]
    THEN <<BlockGlyph, q[1], q[1]>>
    ELSE <<BlockGlyph, q[4], q[1]>>

\* the cells of the region in the order the loops visit them: <<y, x>>, row by row
RegionCells(reg) ==
    LET w == reg[2] - reg[1]
        n == w * (reg[4] - reg[3])
    IN [k \in 1..n |-> <<reg[3] + ((k - 1) \div w), reg[1] + ((k - 1) % w)>>]

\* CPU path, the closure pixel(x, y): the three byte offsets it indexes, in order
PixelReads(x, y, rowLength) ==
    <<(x + y * rowLength) * Bpp + 2,
      (x + y * rowLength) * Bpp + 1,
      (x + y * rowLength) * Bpp + 0>>

\* the closure pair(x, y): pixel(x, y), then pixel(x, y + 1)
PairReads(x, y, rowLength) ==
    PixelReads(x, y, rowLength) \o PixelReads(x, y + 1, rowLength)

\* the offsets indexed for the quadrant of the cell at <<y, x>>, in order
CellReads(yx, rowLength) ==
    LET x == yx[2] * 2
        y == yx[1] * 4
    IN PairReads(x + 0, y + 0, rowLength) \o PairReads(x + 1, y + 0, rowLength)
       \o PairReads(x + 1, y + 2, rowLength) \o PairReads(x + 0, y + 2, rowLength)

\* the bounds check of slice indexing: the first index at or past len panics;
\* reads |-> the offsets read before it
Checked(offsets, len) ==
    LET bad == {k \in 1..Len(offsets) : offsets[k] >= len}
        n == IF bad = {} THEN Len(offsets)
             ELSE (CHOOSE k \in bad : \A j \in bad : k <= j) - 1
    IN [panic |-> bad # {}, reads |-> {offsets[k] : k \in 1..n}]

ReadEnd(offsets) ==
    IF offsets = {} THEN 0 ELSE (CHOOSE m \in offsets : \A o \in offsets : o <= m) + 1

\* CPU path over the cells in visiting order; px is the color of every pixel of
\* the buffer; a cell is written only after its quadrant has been read
RECURSIVE FallbackWalk(_, _, _, _, _, _, _)
FallbackWalk(cs, vw, todo, rowLength, pixLen, px, readEnd) ==
    IF todo = <<>> THEN [cells |-> cs, panic |-> FALSE, readEnd |-> readEnd]
    ELSE LET yx == Head(todo)
             i == (yx[1] + 1) * vw + yx[2] + 1
             quadrant == <<px, px, px, px>>
             b == Binarize(quadrant)
             c == Checked(CellReads(yx, rowLength), pixLen)
             end == Max(readEnd, ReadEnd(c.reads))
         IN IF c.panic
            THEN [cells |-> cs, panic |-> TRUE, readEnd |-> end]
            ELSE FallbackWalk(
                    [cs EXCEPT ![i].cur.quadrant = quadrant,
                               ![i].cur.background = b[2],
                               ![i].cur.foreground = b[3],
                               ![i].cur.codepoint = b[1]],
                    vw, Tail(todo), rowLength, pixLen, px, end)

DrawBackgroundFallback(cs, vw, reg, rowLength, pixLen, px) ==
    FallbackWalk(cs, vw, RegionCells(reg), rowLength, pixLen, px, 0)

\* GPU path, the copy into the input surface: one past the highest source and
\* destination byte offset of the bulk copy or of the row-by-row copy
CopyExtent(vw, reg, rowLength) ==
    LET inputWidth == vw * 2
        rowBytes == inputWidth * Bpp
        left == reg[1]
        right == reg[2]
        top == reg[3]
        bottom == reg[4]
    IN IF rowLength = inputWidth
       THEN [src |-> top * 4 * rowBytes + (bottom - top) * 4 * rowBytes,
             dst |-> top * 4 * rowBytes + (bottom - top) * 4 * rowBytes]
       ELSE LET copyBytes == (right - left) * 2 * Bpp
                lastRow == bottom * 4 - 1
            IN [src |-> (lastRow * rowLength + left * 2) * Bpp + copyBytes,
                dst |-> (lastRow * inputWidth + left * 2) * Bpp + copyBytes]

\* Readback without the reserved row: cell_index = y * viewport.width
ReadbackNoGuardRow(cs, vw, reg, rec) ==
    [i \in 1..Len(cs) |->
        LET y == (i - 1) \div vw
            x == (i - 1) % vw
        IN IF reg[3] <= y /\ y < reg[4] /\ reg[1] <= x /\ x < reg[2]
           THEN [cs[i] EXCEPT !.cur.background = rec[1],
                              !.cur.foreground = rec[2],
                              !.cur.codepoint = rec[3]]
           ELSE cs[i]]
\* GPU path, the readback: every cell of the region takes the output record
Readback(cs, vw, reg, rec) ==
    [i \in 1..Len(cs) |->
        LET y == ((i - 1) \div vw) - 1
            x == (i - 1) % vw
        IN IF reg[3] <= y /\ y < reg[4] /\ reg[1] <= x /\ x < reg[2]
           THEN [cs[i] EXCEPT !.cur.background = rec[1],
                              !.cur.foreground = rec[2],
                              !.cur.codepoint = rec[3]]
           ELSE cs[i]]

\* DrawBackgroundFidelitty without the check of the value wait returns
DrawBackgroundFidelittyNoWaitCheck(cs, vw, reg, rowLength, fault, rec) ==
    LET ext == CopyExtent(vw, reg, rowLength)
        none == [cells |-> cs, readEnd |-> 0, writeEnd |-> 0, ok |-> FALSE,
                 failed |-> "none", calls |-> <<"get_input_surface">>]
        copied == [none EXCEPT !.readEnd = ext.src, !.writeEnd = ext.dst]
    IN IF fault = "input_null"
       THEN [none EXCEPT !.failed = "get_input_surface"]
       ELSE IF reg[2] - reg[1] = 0 \/ reg[4] - reg[3] = 0
       THEN [none EXCEPT !.ok = TRUE]
       ELSE IF fault = "execute"
       THEN [copied EXCEPT !.failed = "execute_region",
                           !.calls = <<"get_input_surface", "execute_region">>]
       ELSE IF fault = "output_null"
       THEN [copied EXCEPT !.failed = "get_output_surface",
                           !.calls = <<"get_input_surface", "execute_region", "wait",
                                       "get_output_surface">>]
       ELSE [copied EXCEPT !.cells = Readback(cs, vw, reg, rec),
                           !.ok = (fault # "wait"),
                           !.failed = IF fault = "wait" THEN "wait" ELSE "none",
                           !.calls = <<"get_input_surface", "execute_region", "wait",
                                       "get_output_surface">>]

\* GPU path: fault names the first foreign call that fails ("none": all succeed);
\* ok |-> no call that was made failed, failed |-> the call that failed
DrawBackgroundFidelitty(cs, vw, reg, rowLength, fault, rec) ==
    LET ext == CopyExtent(vw, reg, rowLength)
        none == [cells |-> cs, readEnd |-> 0, writeEnd |-> 0, ok |-> FALSE,
                 failed |-> "none", calls |-> <<"get_input_surface">>]
        copied == [none EXCEPT !.readEnd = ext.src, !.writeEnd = ext.dst]
    IN IF fault = "input_null"
       THEN [none EXCEPT !.failed = "get_input_surface"]
       ELSE IF reg[2] - reg[1] = 0 \/ reg[4] - reg[3] = 0
       THEN [none EXCEPT !.ok = TRUE]
       ELSE IF fault = "execute"
       THEN [copied EXCEPT !.failed = "execute_region",
                           !.calls = <<"get_input_surface", "execute_region">>]
       ELSE IF fault = "wait"
       THEN [copied EXCEPT !.failed = "wait",
                           !.calls = <<"get_input_surface", "execute_region", "wait">>]
       ELSE IF fault = "output_null"
       THEN [copied EXCEPT !.failed = "get_output_surface",
                           !.calls = <<"get_input_surface", "execute_region", "wait",
                                       "get_output_surface">>]
       ELSE [copied EXCEPT !.cells = Readback(cs, vw, reg, rec), !.ok = TRUE,
                           !.calls = <<"get_input_surface", "execute_region", "wait",
                                       "get_output_surface">>]

Faults == {"none", "input_null", "execute", "wait", "output_null"}

\* the foreign calls are made on the GPU path only
FaultsNow == IF UseFidelitty THEN Faults ELSE {"none"}

\* records the accelerator may leave in its output surface
OutRecs == {<<1, 0, BlockGlyph>>}

DrawBackground(pixLen, rowLength, rect, px, fault, rec) ==
    /\ Ready
    /\ steps' = steps + 1
    /\ LET vw == size.width
           vh == size.height
           reg == Region(vw, vh, rect)
           e == [Ev0 EXCEPT !.op = "draw_background", !.pixLen = pixLen, !.region = reg]
       IN IF pixLen < NeedLen(vw, vh)
          THEN /\ ev' = e
               /\ UNCHANGED <<cells, panicked>>
          ELSE IF UseFidelitty
          THEN LET r == DrawBackgroundFidelitty(cells, vw, reg, rowLength, fault, rec)
               IN /\ cells' = r.cells
                  /\ ev' = [e EXCEPT !.path = "gpu", !.calls = r.calls,
                                     !.readEnd = r.readEnd, !.writeEnd = r.writeEnd,
                                     !.failed = r.failed, !.ok = r.ok]
                  /\ UNCHANGED panicked
          ELSE LET r == DrawBackgroundFallback(cells, vw, reg, rowLength, pixLen, px)
               IN /\ cells' = r.cells
                  /\ panicked' = r.panic
                  /\ ev' = [e EXCEPT !.path = "cpu", !.readEnd = r.readEnd,
                                     !.ok = ~r.panic]
    /\ UNCHANGED <<size, ctx, pipe, pipeDims>>

\* pixel rects: the whole viewport, a negative origin, an interior rect with odd
\* edges, a rect past the viewport, an oversized rect
BgRects(w, h) ==
    {<<0, 0, 2 * w, 4 * h>>, <<-1, -1, 2, 5>>, <<1, 2, 1, 3>>,
     <<2 * w, 4 * h, 2, 4>>, <<0, 0, 2 * w + 3, 4 * h + 5>>}

PixLens(w, h) == {NeedLen(w, h), NeedLen(w, h) - 4} \cap Nat

RowLengths(w) == {2 * w - 1, 2 * w, 2 * w + 1} \cap Nat

---------------------------------------------------------------------------
(* Renderer::render *)

\* the loop over nav.render(size): fill_rect on the element's row, then draw_text
\* in place mode at origin * (2, 1)
RECURSIVE NavDraw(_, _, _)
NavDraw(cs, vw, elems) ==
    IF elems = <<>> THEN [cells |-> cs, panic |-> FALSE]
    ELSE LET e == Head(elems)
             f == Draw(cs, vw, <<e.x, e.y, TextWidth(e.text), 1>>, "fill", e.background)
         IN IF f.panic THEN f
            ELSE NavDraw(PlaceText(f.cells, vw, e.text, <<e.x * 2, e.y * 1>>,
                                   e.foreground).cells,
                         vw, Tail(elems))

\* Synced without the quadrant copy
SyncedNoQuadrant(pair) ==
    [pair EXCEPT !.prev.background = pair.cur.background,
                 !.prev.foreground = pair.cur.foreground,
                 !.prev.codepoint = pair.cur.codepoint,
                 !.prev.grapheme = pair.cur.grapheme]
\* Synced without the grapheme copy
SyncedNoGrapheme(pair) ==
    [pair EXCEPT !.prev.quadrant = pair.cur.quadrant,
                 !.prev.background = pair.cur.background,
                 !.prev.foreground = pair.cur.foreground,
                 !.prev.codepoint = pair.cur.codepoint]

\* what the diff loop copies from current to previous (the cursor is not copied)
Synced(pair) ==
    [pair EXCEPT !.prev.quadrant = pair.cur.quadrant,
                 !.prev.background = pair.cur.background,
                 !.prev.foreground = pair.cur.foreground,
                 !.prev.codepoint = pair.cur.codepoint,
                 !.prev.grapheme = pair.cur.grapheme]

\* DiffWalk with `break` for the loop's fall-through: it stops after the first
\* painted cell
RECURSIVE DiffWalkBreaks(_, _, _, _, _)
DiffWalkBreaks(cs, pos, painted, compared, paintFail) ==
    IF pos >= Len(cs)
    THEN [cells |-> cs, painted |-> painted, compared |-> compared, err |-> FALSE]
    ELSE IF CellEq(cs[pos + 1].cur, cs[pos + 1].prev)
    THEN DiffWalkBreaks(cs, pos + 1, painted, compared + 1, paintFail)
    ELSE [cells |-> [cs EXCEPT ![pos + 1] = Synced(cs[pos + 1])],
          painted |-> Append(painted, pos), compared |-> compared + 1,
          err |-> (Len(painted) + 1 = paintFail)]

\* the diff loop from Rust index pos on; paintFail = k > 0: the k-th paint call
\* of this frame returns an error
RECURSIVE DiffWalk(_, _, _, _, _)
DiffWalk(cs, pos, painted, compared, paintFail) ==
    IF pos >= Len(cs)
    THEN [cells |-> cs, painted |-> painted, compared |-> compared, err |-> FALSE]
    ELSE IF CellEq(cs[pos + 1].cur, cs[pos + 1].prev)
    THEN DiffWalk(cs, pos + 1, painted, compared + 1, paintFail)
    ELSE LET cs2 == [cs EXCEPT ![pos + 1] = Synced(cs[pos + 1])]
             p2 == Append(painted, pos)
         IN IF Len(p2) = paintFail
            THEN [cells |-> cs2, painted |-> p2, compared |-> compared + 1, err |-> TRUE]
            ELSE DiffWalk(cs2, pos + 1, p2, compared + 1, paintFail)

\* painter outcomes: every call succeeds ("none"), begin fails, end fails, or
\* the first / second paint call of the frame fails
PainterFails == {"none", "begin", "end", "paint1", "paint2"}

PaintFailIndex(fail) ==
    IF fail = "paint1" THEN 1 ELSE IF fail = "paint2" THEN 2 ELSE 0

\* positions whose current cell differs from its previous cell
Changed(cs) == {i \in 0..(Len(cs) - 1) : cs[i + 1].cur # cs[i + 1].prev}

\* one call of render on grid cs: the nav loop, painter.begin()?, the diff
\* loop with painter.paint(current)?, painter.end(cursor)?
Frame(cs, vw, elems, fail) ==
    LET n == NavDraw(cs, vw, elems)
        none == [cells |-> n.cells, panic |-> n.panic, changed |-> Changed(n.cells),
                 begun |-> FALSE, painted |-> <<>>, compared |-> 0,
                 ended |-> FALSE, failed |-> "none", ok |-> FALSE]
    IN IF n.panic THEN none
       ELSE IF fail = "begin"
       THEN [none EXCEPT !.begun = TRUE, !.failed = "begin"]
       ELSE LET d == DiffWalk(n.cells, 0, <<>>, 0, PaintFailIndex(fail))
            IN [none EXCEPT !.cells = d.cells, !.begun = TRUE,
                            !.painted = d.painted, !.compared = d.compared,
                            !.ended = ~d.err,
                            !.failed = IF d.err THEN "paint"
                                       ELSE IF fail = "end" THEN "end" ELSE "none",
                            !.ok = (~d.err /\ fail # "end")]

Render(elems, fail) ==
    /\ Ready
    /\ steps' = steps + 1
    /\ LET f == Frame(cells, size.width, elems, fail)
       IN /\ cells' = f.cells
          /\ panicked' = f.panic
          /\ ev' = [Ev0 EXCEPT !.op = "render", !.nav = elems, !.changed = f.changed,
                               !.begun = f.begun, !.painted = f.painted,
                               !.compared = f.compared, !.ended = f.ended,
                               !.failed = f.failed, !.ok = f.ok,
                               !.again = (ev.op = "render" /\ ev.ok /\ ev.nav = elems)]
    /\ UNCHANGED <<size, ctx, pipe, pipeDims>>

---------------------------------------------------------------------------
(* impl Drop for Renderer *)

\* DropCalls without the null check of the pipeline handle
DropCallsNoNullCheck ==
    IF ctx THEN <<"destroy_pipeline", "context_destroy">> ELSE <<>>

\* the foreign calls drop makes: the pipeline, if there is one, then the context
DropCalls ==
    IF ctx
    THEN (IF pipe THEN <<"destroy_pipeline">> ELSE <<>>) \o <<"context_destroy">>
    ELSE <<>>

\* the owner drops the renderer, or a panic unwinds through it; the handles are
\* kept in the state as they were passed to the accelerator
Drop ==
    /\ ev.op # "drop"
    /\ steps < MaxSteps
    /\ ev' = [Ev0 EXCEPT !.op = "drop", !.calls = DropCalls]
    /\ steps' = steps + 1
    /\ UNCHANGED <<size, cells, ctx, pipe, pipeDims, panicked>>

---------------------------------------------------------------------------
Next ==
    \/ \E w \in 1..MaxW, h \in 0..MaxH, a \in BOOLEAN : SetSize(w, h, a)
    \/ \E h \in 0..MaxH, a \in BOOLEAN, d \in BOOLEAN : SetSizeZeroWidth(h, a, d)
    \/ \E r \in Rects(size.width, size.height), m \in {"fill", "tint"}, c \in Colors :
          DrawOp(r, m, c)
    \/ ClearText
    \/ \E s \in Texts, o \in Origins(size.width, size.height), z \in TextSizes, c \in Colors :
          DrawText(s, o, z, c)
    \/ \E n \in PixLens(size.width, size.height), l \in RowLengths(size.width),
          r \in BgRects(size.width, size.height), c \in Colors, f \in FaultsNow, o \in OutRecs :
          DrawBackground(n, l, r, c, f, o)
    \/ \E n \in NavStates(size.width, size.height), f \in PainterFails : Render(n, f)
    \/ Drop

Spec == Init /\ [][Next]_vars

\* the text calls alone, over more sizes
NextText ==
    \/ \E w \in 1..MaxW, h \in 0..MaxH, a \in BOOLEAN : SetSize(w, h, a)
    \/ ClearText
    \/ \E s \in Texts, o \in Origins(size.width, size.height), z \in TextSizesEdge,
          c \in Colors :
          DrawText(s, o, z, c)

SpecText == Init /\ [][NextText]_vars

\* the frame calls alone, over viewports of more rows
NextNav ==
    \/ \E w \in 1..MaxW, h \in 0..MaxNavH, a \in BOOLEAN : SetSize(w, h, a)
    \/ \E n \in NavStates(size.width, size.height), f \in PainterFails : Render(n, f)
    \/ ClearText

SpecNav == Init /\ [][NextNav]_vars

---------------------------------------------------------------------------
(* Properties *)

W == size.width
H == size.height
Positions == 0..(Len(cells) - 1)
SeqSet(q) == {q[k] : k \in 1..Len(q)}
Increasing(q) == \A j, k \in 1..Len(q) : j < k => q[j] < q[k]
HasText(cs) == \E i \in 1..Len(cs) : cs[i].cur.grapheme # None

\* C1: a render that follows a successful render, with nothing in between and
\* the same navigation elements, forwards no cell to the painter. Stated of the
\* last call, and of every pair of frames that can start in a state where a call
\* can still be made.
C1_Idempotent ==
    /\ (ev.op = "render" /\ ev.again) => ev.painted = <<>>
    /\ steps < MaxSteps =>
          \A n \in NavStates(W, H) :
             LET first == Frame(cells, W, n, "none")
             IN first.ok =>
                   Frame(first.cells, W, n, "none").painted = <<>>

C1_Witness ==
    /\ ev.op = "render" /\ ev.again /\ ev.ok
    /\ ev.nav # <<>>
    /\ HasText(cells)

\* C2 as claimed: in every render the forwarded positions are exactly the
\* positions whose current cell differs from the previous one at diff time.
C2_Original ==
    (ev.op = "render" /\ ~panicked) =>
        /\ SeqSet(ev.painted) = ev.changed
        /\ Increasing(ev.painted)

\* C2 amended: the diff loop forwards positions in grid order, each at most
\* once, and only positions that differ; it forwards every differing position
\* up to the one whose paint call fails, and all of them when begin and every
\* paint call succeed.
C2_Diff ==
    (ev.op = "render" /\ ~panicked) =>
        /\ Increasing(ev.painted)
        /\ SeqSet(ev.painted) \subseteq ev.changed
        /\ \A i \in ev.changed :
              (\E j \in SeqSet(ev.painted) : i <= j) => i \in SeqSet(ev.painted)
        /\ ev.failed \in {"none", "end"} => SeqSet(ev.painted) = ev.changed
        /\ ev.failed = "begin" => ev.painted = <<>>
        /\ ev.failed = "paint" => ev.painted # <<>>

C2_Witness ==
    /\ ev.op = "render" /\ ev.ok
    /\ ev.painted # <<>>
    /\ ev.changed # Positions

\* C3 as claimed: after a set_size whose pipeline create or resize failed the
\* pipeline handle is null.
C3_Claim ==
    (ev.op = "set_size" /\ ev.calls # <<>> /\ ~ev.ok) => ~pipe

\* C4 as claimed: the GPU path runs only with a context, a pipeline, and a
\* pipeline last created or resized for the current viewport size.
C4_Claim ==
    (ev.op = "draw_background" /\ ev.path = "gpu") =>
        /\ ctx
        /\ pipe
        /\ pipeDims = <<W, H>>

\* C5 as claimed: a draw_background that passes the size check reads only
\* offsets below pixels.len() and writes the input surface only inside
\* width*2 * height*4 * 4 bytes.
C5_Claim ==
    (ev.op = "draw_background" /\ ev.path # "none") =>
        /\ ev.readEnd <= ev.pixLen
        /\ ev.writeEnd <= (W * 2) * (H * 4) * 4

\* C6 as claimed: every render compares every position, forwards every changed
\* cell and ends with the painter's end-of-frame call.
C6_Original ==
    (ev.op = "render" /\ ~panicked) =>
        /\ ev.ended
        /\ ev.compared = Len(cells)
        /\ SeqSet(ev.painted) = ev.changed

\* C6 amended: a render whose begin and paint calls all succeed compares every
\* position, forwards every changed cell and makes the end-of-frame call; a
\* begin or paint error ends the frame at once, without the end-of-frame call,
\* and render returns Ok exactly when no painter call failed.
C6_Frame ==
    (ev.op = "render" /\ ~panicked) =>
        /\ ev.begun
        /\ ev.failed \in {"none", "end"} =>
              /\ ev.ended
              /\ ev.compared = Len(cells)
              /\ SeqSet(ev.painted) = ev.changed
        /\ ev.failed = "begin" => (~ev.ended /\ ev.compared = 0 /\ ev.painted = <<>>)
        /\ ev.failed = "paint" =>
              /\ ~ev.ended
              /\ ev.painted # <<>>
              /\ ev.compared = ev.painted[Len(ev.painted)] + 1
        /\ ev.ok <=> ev.failed = "none"

C6_Witness ==
    /\ ev.op = "render"
    /\ ev.failed = "paint"
    /\ ev.compared < Len(cells)

\* offset in cells of the k-th cluster of a string
OffsetOf(text, k) == TextWidth(SubSeq(text, 1, k - 1))

\* C7 as claimed: place mode leaves a double-width grapheme that has two cells
\* left on two consecutive cells with the same text, width 2 and color, the
\* first with index 0 and the second with index 1.
C7_Claim ==
    (ev.op = "draw_text" /\ ev.mode = "place") =>
        \A k \in 1..Len(ev.text) :
            LET at == ev.start + OffsetOf(ev.text, k)
            IN (Width(ev.text[k]) = 2 /\ at + 2 <= Len(cells)) =>
                  /\ cells[at + 1].cur.grapheme = Some(Grapheme(ev.text[k], 0, 2, ev.color))
                  /\ cells[at + 2].cur.grapheme = Some(Grapheme(ev.text[k], 1, 2, ev.color))

\* the slice starts place mode computes from the origins
Starts == {SliceStart(Len(cells), PlaceIndex(W, o)) : o \in Origins(W, H)}

\* C8: repeating a place-mode draw_text stores no new Grapheme and changes no
\* cell, a render after the repeat forwards nothing when one followed the first
\* call, and a grapheme is stored only over None or over another text or color.
\* Stated of the last call, and of every repeat that can start in a state where
\* a call can still be made.
C8_Stable ==
    /\ (ev.op = "draw_text" /\ ev.mode = "place" /\ ev.again) => ev.stored = {}
    /\ steps < MaxSteps =>
       \A s \in Texts, o \in Starts, c \in Colors :
             LET first == PlaceAt(cells, o, s, c)
                 second == PlaceAt(first.cells, o, s, c)
                 shown == Frame(first.cells, W, <<>>, "none")
                 third == PlaceAt(shown.cells, o, s, c)
             IN /\ second.stored = {}
                /\ second.cells = first.cells
                /\ second.touched = first.touched
                /\ Frame(third.cells, W, <<>>, "none").painted = <<>>
                /\ \A i \in first.stored :
                      LET old == cells[i + 1].cur.grapheme
                          new == first.cells[i + 1].cur.grapheme[1]
                      IN old = None \/ old[1].char # new.char \/ old[1].color # new.color

C8_Witness ==
    /\ ev.op = "draw_text" /\ ev.mode = "place" /\ ev.again
    /\ Cardinality(ev.touched) >= 2

\* C9: place mode never leaves the grid and never fails: the slice starts at or
\* before the end of the grid, the cells accessed are the cells from the start
\* index on, as many as the string needs or as remain, and they hold the
\* string's graphemes in order.
C9_Clipped ==
    (ev.op = "draw_text" /\ ev.mode = "place") =>
        /\ ~panicked /\ ev.ok
        /\ ev.start <= Len(cells)
        /\ ev.touched \subseteq Positions
        /\ ev.touched = {i \in Positions :
                            ev.start <= i /\ i < ev.start + TextWidth(ev.text)}
        /\ \A i \in ev.touched :
              /\ cells[i + 1].cur.grapheme # None
              /\ cells[i + 1].cur.grapheme[1].char
                    = Pieces(ev.text, ev.color)[i - ev.start + 1].char
              /\ cells[i + 1].cur.grapheme[1].color = ev.color

C9_Witness ==
    /\ ev.op = "draw_text" /\ ev.mode = "place"
    /\ ev.touched # {}
    /\ ev.start + TextWidth(ev.text) > Len(cells)

\* C10: after set_size the grid holds width * (height + 1) pairs in row-major
\* order, each pair with its cursor in both cells and both cells in the default
\* state.
C10_Resize ==
    (ev.op = "set_size" /\ ~panicked) =>
        /\ Len(cells) = W * (H + 1)
        /\ \A i \in Positions :
              LET fresh == [cursor |-> <<i % W, i \div W>>,
                            grapheme |-> <<>>,
                            quadrant |-> <<0, 0, 0, 0>>,
                            background |-> 0,
                            foreground |-> 0,
                            codepoint |-> 32]
              IN cells[i + 1].prev = fresh /\ cells[i + 1].cur = fresh

C10_Witness ==
    /\ ev.op = "set_size" /\ ev.dirty
    /\ W = 2 /\ H = 1
    /\ Len(cells) = 4

\* C11: on the GPU path of draw_background, a failed execute_region is not
\* followed by wait; after a failed execute_region or wait the output surface
\* is not fetched and the call leaves every pair of the grid as it was; the
\* output surface is fetched only after execute_region and wait were both
\* called and neither failed.
C11_FailStops ==
    [][(ev'.op = "draw_background" /\ ev'.path = "gpu") =>
          LET made == SeqSet(ev'.calls)
          IN /\ ev'.failed = "execute_region" => "wait" \notin made
             /\ ev'.failed \in {"execute_region", "wait"} =>
                   /\ "get_output_surface" \notin made
                   /\ cells' = cells
             /\ "get_output_surface" \in made =>
                   /\ ev'.calls = <<"get_input_surface", "execute_region", "wait",
                                    "get_output_surface">>
                   /\ ev'.failed \in {"none", "get_output_surface"}
             /\ cells' # cells => ev'.failed = "none"]_vars

C11_Witness ==
    /\ ev.op = "draw_background" /\ ev.path = "gpu"
    /\ ev.failed = "wait"
    /\ ev.calls = <<"get_input_surface", "execute_region", "wait">>
    /\ ev.region[1] < ev.region[2] /\ ev.region[3] < ev.region[4]

\* C12: a draw_background whose pixel buffer is shorter than
\* viewport.width * viewport.height * 32 bytes does nothing: the grid is left
\* as it was, no accelerator function is called and no byte of the buffer is
\* read, with or without a pipeline.
C12_ShortBuffer ==
    [][(ev'.op = "draw_background" /\ ev'.pixLen < size.width * size.height * 32) =>
          /\ cells' = cells
          /\ ev'.calls = <<>>
          /\ ev'.readEnd = 0 /\ ev'.writeEnd = 0
          /\ ev'.path = "none"
          /\ ~panicked']_vars

C12_Witness ==
    /\ ev.op = "draw_background"
    /\ ev.pixLen < W * H * 32
    /\ ctx /\ pipe
    /\ ev.region[1] < ev.region[2] /\ ev.region[3] < ev.region[4]

\* C13: when Renderer::new got a null context, no later call makes a foreign
\* call: the context is not created again, no pipeline ever exists, set_size,
\* draw_background and drop call no accelerator function, and a draw_background
\* that gets past the size check takes the CPU path.
C13_NoContext ==
    ~ctx =>
        /\ ~pipe
        /\ ev.op # "new" => ev.calls = <<>>
        /\ ev.op = "draw_background" =>
              /\ ev.path # "gpu"
              /\ ev.pixLen >= W * H * 32 => ev.path = "cpu"

C13_Witness ==
    /\ ~ctx
    /\ ev.op = "draw_background" /\ ev.path = "cpu"
    /\ ev.region[1] < ev.region[2] /\ ev.region[3] < ev.region[4]
    /\ steps = 3

\* C14: dropping a renderer that has a context destroys the pipeline first, if
\* there is one, and then the context, each with one call; the pipeline is not
\* passed to destroy_pipeline when it is null; no other call destroys either
\* handle, and no call follows the drop.
C14_Teardown ==
    [][/\ ev.op # "drop"
       /\ (ev'.op = "drop" /\ ctx) =>
             ev'.calls = IF pipe THEN <<"destroy_pipeline", "context_destroy">>
                                 ELSE <<"context_destroy">>
       /\ ev'.op # "drop" =>
             /\ "destroy_pipeline" \notin SeqSet(ev'.calls)
             /\ "context_destroy" \notin SeqSet(ev'.calls)]_vars

C14_Witness ==
    /\ ev.op = "drop" /\ ctx /\ pipe
    /\ ev.calls = <<"destroy_pipeline", "context_destroy">>
    /\ W > 0 /\ steps = 3

\* C15: for a rectangle that lies inside the grid (rows 0..height), draw and
\* fill_rect return normally, apply the closure once to the current cell of
\* every position whose cursor is inside the rectangle, and leave every other
\* current cell and every previous cell as they were; after fill_rect each of
\* those current cells has no grapheme, four quadrant colors, a background and
\* a foreground equal to the color, and the space code point.
C15_DrawRect ==
    [][(/\ ev'.op \in {"fill_rect", "draw"}
        /\ ev'.rect[1] + ev'.rect[3] <= size.width
        /\ ev'.rect[2] + ev'.rect[4] <= size.height + 1) =>
          /\ ~panicked' /\ ev'.ok
          /\ Len(cells') = Len(cells)
          /\ \A i \in 1..Len(cells) :
                LET old == cells[i].cur
                    c == ev'.color
                    inside == /\ ev'.rect[1] <= old.cursor[1]
                              /\ old.cursor[1] < ev'.rect[1] + ev'.rect[3]
                              /\ ev'.rect[2] <= old.cursor[2]
                              /\ old.cursor[2] < ev'.rect[2] + ev'.rect[4]
                IN /\ cells'[i].prev = cells[i].prev
                   /\ cells'[i].cur =
                         IF ~inside THEN old
                         ELSE IF ev'.op = "fill_rect"
                         THEN [cursor |-> old.cursor,
                               grapheme |-> <<>>,
                               quadrant |-> <<c, c, c, c>>,
                               background |-> c,
                               foreground |-> c,
                               codepoint |-> 32]
                         ELSE [old EXCEPT !.foreground = (old.foreground + c) % 2]]_vars

C15_Witness ==
    /\ ev.op = "fill_rect" /\ ev.ok
    /\ W = 2 /\ H = 1
    /\ ev.rect = <<1, 1, 1, 1>> /\ ev.color = 1
    /\ cells[4].cur.background = 1
    /\ cells[3].cur.background = 0

\* C16, the region of draw_background: 0 <= left <= right <= width and
\* 0 <= top <= bottom <= height
C16_RegionBounds ==
    ev.op = "draw_background" =>
        /\ 0 <= ev.region[1] /\ ev.region[1] <= ev.region[2] /\ ev.region[2] <= W
        /\ 0 <= ev.region[3] /\ ev.region[3] <= ev.region[4] /\ ev.region[4] <= H

\* C16, the rectangle of draw_text's clear mode: columns in [0, width], rows in
\* [0, height]
C16_ClearBounds ==
    (ev.op = "draw_text" /\ ev.mode = "clear") =>
        /\ {ev.region[1], ev.region[2]} \subseteq 0..W
        /\ {ev.region[3], ev.region[4]} \subseteq 0..H

\* C16 as claimed: every column computed from pixel coordinates lies in
\* [0, width] and every row in [0, height]: the region of draw_background, the
\* rectangle of draw_text's clear mode, and the start cell of draw_text's place
\* mode.
C16_Claim ==
    /\ C16_RegionBounds
    /\ C16_ClearBounds
    /\ (ev.op = "draw_text" /\ ev.mode = "place") =>
          /\ ev.cell[1] \in 0..W
          /\ ev.cell[2] \in 0..H

\* C17: on either path draw_background changes only current cells at index
\* (y + 1) * width + x with top <= y < bottom and left <= x < right of its
\* clamped region: every pair outside it, every previous cell, every grapheme
\* and cursor, and the whole of row 0 are as they were before the call.
C17_BackgroundFrame ==
    [][ev'.op = "draw_background" =>
          /\ Len(cells') = Len(cells)
          /\ \A i \in 1..Len(cells) :
                LET y == ((i - 1) \div size.width) - 1
                    x == (i - 1) % size.width
                    inside == /\ ev'.region[3] <= y /\ y < ev'.region[4]
                              /\ ev'.region[1] <= x /\ x < ev'.region[2]
                IN /\ cells'[i].prev = cells[i].prev
                   /\ cells'[i].cur.grapheme = cells[i].cur.grapheme
                   /\ cells'[i].cur.cursor = cells[i].cur.cursor
                   /\ ~inside => cells'[i] = cells[i]
                   /\ i <= size.width => cells'[i] = cells[i]]_vars

C17_Witness ==
    /\ ev.op = "draw_background" /\ ev.path = "gpu" /\ ev.failed = "none"
    /\ W = 2 /\ H = 1
    /\ ev.region = <<0, 1, 0, 1>>
    /\ cells[3].cur.codepoint = 9604
    /\ cells[4].cur.codepoint = 32
    /\ HasText(cells)

C19_Synced ==
    /\ (ev.op = "render" /\ ev.ok) =>
          \A i \in 1..Len(cells) : cells[i].prev = cells[i].cur
    /\ \A i \in 1..Len(cells) : cells[i].prev.cursor = cells[i].cur.cursor

C19_Witness ==
    /\ ev.op = "render" /\ ev.ok /\ steps = 3
    /\ Len(ev.painted) >= 2
    /\ HasText(cells)
    /\ \E i \in 1..Len(cells) : cells[i].cur.quadrant # <<0, 0, 0, 0>>

\* C20 as claimed: after a render, for every navigation element whose origin is
\* inside the viewport, the cells of the rectangle (origin.x, origin.y, text
\* width, 1) that fill_rect painted hold the graphemes of the element's text, in
\* order and in the element's foreground color, for every origin.y.
C20_Claim ==
    (ev.op = "render" /\ ~panicked) =>
        \A k \in 1..Len(ev.nav) :
           LET e == ev.nav[k]
           IN (e.x < W /\ e.y < H) =>
                 \A j \in 1..TextWidth(e.text) :
                    LET g == cells[e.y * W + e.x + j].cur.grapheme
                    IN /\ g # None
                       /\ g[1].char = Pieces(e.text, e.foreground)[j].char
                       /\ g[1].color = e.foreground

\* C21 as claimed: when a paint call of render fails, the position it was made
\* for still has a previous cell that differs from its current cell afterwards,
\* so that the next render forwards it again; previous is brought equal to
\* current only at positions whose paint call succeeded.
C21_Claim ==
    (ev.op = "render" /\ ev.failed = "paint") =>
        LET at == ev.painted[Len(ev.painted)]
        IN cells[at + 1].prev # cells[at + 1].cur

=============================================================================
